---- MODULE Spec2Model ----
(***************************************************************************)
(* Model of misis_id: MisisClient (client.py) and its data models          *)
(* (models.py).  Strings the code inspects character by character          *)
(* (Location headers, URLs, tokens, field values) are sequences of         *)
(* one-character strings, so that `in`, split() and strip() are computed   *)
(* as Python computes them.  An Optional value is <<>> (None) or <<v>>.    *)
(***************************************************************************)
EXTENDS Integers, Sequences, FiniteSets, TLC

VARIABLES
    max_retries,      \* MisisClient.max_retries
    _session,         \* MisisClient._session: 0 (None) or the id of an aiohttp session
    _owned_session,   \* MisisClient._owned_session
    http_sessions,    \* the aiohttp sessions created so far: id -> "open" | "closed"
    _session_info,    \* MisisClient._session_info: None or Some(SessionInfo)
    last_call,        \* the most recent call on the client that ended and what it did
    tasks,            \* the asyncio tasks that call the client: where each one is
    overlapped        \* whether a call was ever made while another was under way

vars ==
    <<max_retries, _session, _owned_session, http_sessions, _session_info, last_call,
      tasks, overlapped>>

---------------------------------------------------------------------------
(* Bounds of the model *)

\* largest max_retries a client is constructed with in Spec
MaxRetries == 2
\* largest max_retries a client is constructed with in SpecTransport
MaxTransportRetries == 3
\* largest number of required fields a profile page of SpecParse departs
\* from the complete page in
MaxDefects == 2
\* largest number of aiohttp sessions one client creates
MaxHttpSessions == 2
\* largest max_retries a client is constructed with in SpecAuth
MaxAuthRetries == 2

---------------------------------------------------------------------------
(* Python values *)

None == <<>>
Some(v) == <<v>>
IsNone(o) == o = <<>>
Val(o) == o[1]

\* the str "" is falsy, every other str is truthy
Truthy(s) == Len(s) > 0

\* str.strip() removes leading and trailing whitespace: the characters for
\* which str.isspace() holds.  Those are the ASCII space, \t, \n, \r, \f, \v
\* and the separators \x1c..\x1f, then \x85, \xa0, U+1680, and U+2000..U+200A,
\* U+2028, U+2029, U+202F, U+205F, U+3000; the last group cannot be written in
\* a string of this language, so no string of the model holds one of them.
IsSpace(c) ==
    c \in {" ", "\t", "\n", "\r", "\f", "", "", "", "", "",
     "", " ", " "}

RECURSIVE LStrip(_)
LStrip(s) ==
    IF Len(s) > 0 /\ IsSpace(s[1]) THEN LStrip(Tail(s)) ELSE s

RECURSIVE RStrip(_)
RStrip(s) ==
    IF Len(s) > 0 /\ IsSpace(s[Len(s)]) THEN RStrip(SubSeq(s, 1, Len(s) - 1)) ELSE s

Strip(s) == RStrip(LStrip(s))

\* sub occurs in s at index i
OccursAt(s, sub, i) ==
    /\ i >= 1
    /\ i + Len(sub) - 1 <= Len(s)
    /\ \A j \in 1..Len(sub) : s[i + j - 1] = sub[j]

\* Python `sub in s`
Contains(s, sub) == \E i \in 1..(Len(s) + 1) : OccursAt(s, sub, i)

\* index of the first occurrence of sub in s, 0 when there is none
Find(s, sub) ==
    IF Contains(s, sub)
    THEN CHOOSE i \in 1..(Len(s) + 1) :
            /\ OccursAt(s, sub, i)
            /\ \A k \in 1..(i - 1) : ~OccursAt(s, sub, k)
    ELSE 0

\* Python s.split(sep), sep non-empty
RECURSIVE Split(_, _)
Split(s, sep) ==
    LET i == Find(s, sep)
    IN  IF i = 0
        THEN <<s>>
        ELSE <<SubSeq(s, 1, i - 1)>> \o Split(SubSeq(s, i + Len(sep), Len(s)), sep)

---------------------------------------------------------------------------
(* Constants of the client *)

\* the default of __init__'s max_retries
DefaultMaxRetries == 3

BASE_URL == <<"h","t","t","p","s",":","/","/","l","k",".","m","i","s","i","s",".","r","u">>
AUTH_URL == BASE_URL \o <<"/","r","u","/","u","s","e","r","s","/","s","i","g","n","_","i","n">>

---------------------------------------------------------------------------
(* HTTP: what the server answers to one request attempt *)

\* headers of a response: only Location is read
Headers(location) == [Location |-> location]

\* a page body, as far as the client's parsers look at it:
\*   csrf_meta      None when there is no <meta name="csrf-token">, else
\*                  Some(content) with content None when the attribute is absent
\*   failure_phrase whether the body contains the login failure phrase
\*   profile        the labelled fields of a profile page
Body(csrf_meta, failure_phrase, profile) ==
    [csrf_meta |-> csrf_meta, failure_phrase |-> failure_phrase, profile |-> profile]

Response(status, text, url, headers) ==
    [t |-> "response", status |-> status, text |-> text, url |-> url, headers |-> headers]

\* session.request raised aiohttp.ClientError
ClientError == [t |-> "ClientError"]
\* session.request raised an exception that is not an aiohttp.ClientError
OtherError == [t |-> "OtherError"]
\* the total timeout of the session (ClientTimeout(total=timeout), line 48) ran
\* out during the attempt: aiohttp raises asyncio.TimeoutError, which is not
\* an aiohttp.ClientError
TimeoutError == [t |-> "TimeoutError"]

\* session.request was called on a session that is closed: aiohttp raises
\* RuntimeError("Session is closed") without sending anything
SessionClosed == [t |-> "SessionClosed"]

\* (mutant) every attempt retried
Retryable_always(o) == TRUE

\* an attempt that _make_request answers by retrying
Retryable(o) == o.t = "ClientError" \/ (o.t = "response" /\ o.status >= 400)

---------------------------------------------------------------------------
(* MisisClient._get_session, close, __aenter__ *)

\* _get_session / __aenter__: create the aiohttp session when there is none
_get_session(sess, https) ==
    IF sess = 0
    THEN [_session |-> Len(https) + 1, http_sessions |-> Append(https, "open")]
    ELSE [_session |-> sess, http_sessions |-> https]

\* (mutant) an owned session closed but still referenced
close_keepref(sess, owned, https) ==
    IF sess # 0 /\ owned
    THEN [_session |-> sess, http_sessions |-> [https EXCEPT ![sess] = "closed"]]
    ELSE [_session |-> sess, http_sessions |-> https]

\* (mutant) the session closed and dropped whoever owns it
close_unowned(sess, owned, https) ==
    IF sess # 0
    THEN [_session |-> 0, http_sessions |-> [https EXCEPT ![sess] = "closed"]]
    ELSE [_session |-> sess, http_sessions |-> https]

\* close: an owned session is closed and dropped
close(sess, owned, https) ==
    IF sess # 0 /\ owned
    THEN [_session |-> 0, http_sessions |-> [https EXCEPT ![sess] = "closed"]]
    ELSE [_session |-> sess, http_sessions |-> https]

---------------------------------------------------------------------------
(* MisisClient._make_request *)

RequestEvent(method, url, kwargs, attempt) ==
    [e |-> "request", method |-> method, url |-> url, kwargs |-> kwargs,
     attempt |-> attempt]
SleepEvent(delay) == [e |-> "sleep", delay |-> delay]

NoResponse == [t |-> "none"]

\* the delay slept after a failed attempt that is not the last
Backoff(attempt) == 2 ^ attempt

\* the retry loop from `attempt` on; script[attempt + 1] is what the
\* session.request call of that attempt met: the server's answer, or
\* SessionClosed
RECURSIVE RetryLoop(_, _, _, _, _, _)
RetryLoop(n, method, url, kwargs, script, attempt) ==
    IF attempt >= n
    THEN \* the for loop ran out: raise NetworkError (line 122)
         [events |-> <<>>, kind |-> "NetworkError", response |-> NoResponse]
    ELSE LET o == script[attempt + 1]
             req == RequestEvent(method, url, kwargs, attempt)
         IN  IF o.t = "SessionClosed"
             THEN \* RuntimeError is no aiohttp.ClientError: it leaves the loop
                  [events |-> <<req>>, kind |-> "OtherError", response |-> NoResponse]
             ELSE
             IF Retryable(o)
             THEN IF attempt = n - 1
                  THEN [events |-> <<req>>, kind |-> "NetworkError",
                        response |-> NoResponse]
                  ELSE LET rest == RetryLoop(n, method, url, kwargs, script, attempt + 1)
                       IN  [rest EXCEPT !.events =
                                <<req, SleepEvent(Backoff(attempt))>> \o rest.events]
             ELSE IF o.t = "response"
                  THEN [events |-> <<req>>, kind |-> "ok", response |-> o]
                  ELSE \* an exception line 116 does not catch, a timeout too
                       [events |-> <<req>>, kind |-> "OtherError",
                        response |-> NoResponse]

\* (mutant) the loop that ran no attempt falls through without NetworkError
_make_request_fallthrough(n, method, url, kwargs, script) ==
    LET r == RetryLoop(n, method, url, kwargs, script, 0)
    IN  IF n <= 0 THEN [r EXCEPT !.kind = "OtherError"] ELSE r

_make_request(n, method, url, kwargs, script) ==
    RetryLoop(n, method, url, kwargs, script, 0)

\* keyword arguments of a request
GetKwargs == [allow_redirects |-> TRUE, data |-> None]
\* (mutant) the POST left to follow redirects
PostKwargs_redirects(payload) == [allow_redirects |-> TRUE, data |-> Some(payload)]
PostKwargs(payload) == [allow_redirects |-> FALSE, data |-> Some(payload)]

\* the request events among the events of a call
Requests(events) == SelectSeq(events, LAMBDA ev : ev.e = "request")

---------------------------------------------------------------------------
(* The callers: asyncio tasks that share the client.  A call runs until it *)
(* is suspended at an await that yields to the event loop, and the other   *)
(* tasks run meanwhile.                                                    *)

Tasks == {"A", "B"}

\* where a task is, with the local variables of the coroutines it is in:
\*   pc       "idle", or the await it is suspended at: "request"
\*            (session.request and response.text(), lines 100 and 113), "sleep"
\*            (asyncio.sleep, lines 109 and 120), "close" (session.close(), line 67)
\*   op       the method of the client it called
\*   phase    for authenticate: the _make_request call it is in, "GET" or "POST"
\*   session  `session` of _make_request (line 96); for close, what line 68 assigns
\*   url      `url` of get_student_info (line 281)
\*   gs       what the attempts of the login-page GET met
\*   script   what the attempts of the _make_request call under way have met
Task(pc, op, phase, login, password, method, auth_before, session, url, gs, script) ==
    [pc |-> pc, op |-> op, phase |-> phase, login |-> login, password |-> password,
     method |-> method, auth_before |-> auth_before, session |-> session, url |-> url,
     gs |-> gs, script |-> script]

IdleTask == Task("idle", "", "", <<>>, <<>>, "", FALSE, 0, <<>>, <<>>, <<>>)

\* no task is in a call
NoCallers ==
    /\ tasks = [t \in Tasks |-> IdleTask]
    /\ overlapped = FALSE

---------------------------------------------------------------------------
(* The server: the answers one _make_request call can meet *)

RECURSIVE SeqsOfLen(_, _)
SeqsOfLen(S, k) ==
    IF k = 0 THEN {<<>>}
    ELSE {Append(s, x) : s \in SeqsOfLen(S, k - 1), x \in S}

\* the scripts a call with max_retries = n consumes entirely: failures until a
\* final answer, or n failures
Scripts(n, failures, finals) ==
    IF n <= 0 THEN {<<>>}
    ELSE UNION {
            {Append(p, f) : p \in SeqsOfLen(failures, k), f \in finals}
            : k \in 0..(n - 1) }
         \cup SeqsOfLen(failures, n)

EmptyBody == Body(None, FALSE, <<>>)
ErrorResponse(status) == Response(status, EmptyBody, AUTH_URL, Headers(None))

\* failing attempts
Failures == {ClientError, ErrorResponse(404), ErrorResponse(500)}

---------------------------------------------------------------------------
(* SpecTransport: one client, _make_request and close() called on it *)

InitTransport ==
    /\ max_retries \in 0..MaxTransportRetries
    /\ _session = 0
    /\ _owned_session = TRUE
    /\ http_sessions = <<>>
    /\ _session_info = None
    /\ last_call = [op |-> "init"]
    /\ NoCallers

---------------------------------------------------------------------------
(* MisisClient._parse_student_info and StudentInfo *)

\* the keys of `data`, in the order the parser fills them
Fields ==
    <<"full_name", "record_book_number", "study_form", "preparation_level",
      "specialization", "specialty", "faculty", "course", "group",
      "financing_form", "dormitory", "end_date", "personal_email",
      "personal_phone", "corporate_email">>

required_fields ==
    <<"full_name", "record_book_number", "study_form", "preparation_level",
      "specialty", "faculty", "course", "group", "financing_form", "dormitory",
      "end_date">>

FieldSet == {Fields[i] : i \in 1..Len(Fields)}
RequiredSet == {required_fields[i] : i \in 1..Len(required_fields)}
EmailSet == {"personal_email", "corporate_email"}

\* One field of a profile page.  For a labelled field, label says whether the
\* span.person__label with its caption is on the page and value is the text of
\* the span.person__value that follows it (None when there is none).  For
\* full_name, label says whether div.person_name is on the page and value is
\* the text of its h3 (None when there is none).
PageField(label, value) == [label |-> label, value |-> value]

\* (mutant) "" in place of None when the value element is not there
extract_value_empty(page, f) ==
    IF page[f].label
    THEN IF IsNone(page[f].value) THEN Some(<<>>) ELSE Some(Strip(Val(page[f].value)))
    ELSE None

\* extract_value: the stripped text of the value element, None without the
\* label or without the value element
extract_value(page, f) ==
    IF page[f].label /\ ~IsNone(page[f].value)
    THEN Some(Strip(Val(page[f].value)))
    ELSE None

\* the full_name entry of data: absent (None under data.get) without the name
\* block, "" without its h3
extract_full_name(page) ==
    IF page["full_name"].label
    THEN IF IsNone(page["full_name"].value)
         THEN Some(<<>>)
         ELSE Some(Strip(Val(page["full_name"].value)))
    ELSE None

\* the dict `data` as data.get reads it
ExtractData(page) ==
    [f \in FieldSet |->
        IF f = "full_name" THEN extract_full_name(page) ELSE extract_value(page, f)]

\* the first required field whose entry is None, in the order of
\* required_fields; 0 when there is none
FirstMissing(data) ==
    IF \E i \in 1..Len(required_fields) : IsNone(data[required_fields[i]])
    THEN CHOOSE i \in 1..Len(required_fields) :
            /\ IsNone(data[required_fields[i]])
            /\ \A k \in 1..(i - 1) : ~IsNone(data[required_fields[k]])
    ELSE 0

\* validate_full_name, validate_record_book_number: not v or not v.strip()
NonBlankValidator(v) == Truthy(v) /\ Truthy(Strip(v))

\* validate_personal_email, validate_corporate_email: v and '@' not in v
EmailValidator(o) == IsNone(o) \/ ~Truthy(Val(o)) \/ Contains(Val(o), <<"@">>)

\* the fields whose validation StudentInfo(**data) rejects
StudentInfoErrors(data) ==
      {f \in RequiredSet : IsNone(data[f])}
    \cup {f \in {"full_name", "record_book_number"} :
            ~IsNone(data[f]) /\ ~NonBlankValidator(Val(data[f]))}
    \cup {f \in EmailSet : ~EmailValidator(data[f])}

\* the StudentInfo built from valid data: the two validated names stripped
StudentInfo(data) ==
    [f \in FieldSet |->
        IF f \in {"full_name", "record_book_number"}
        THEN Some(Strip(Val(data[f])))
        ELSE data[f]]

NoRecord == [f \in {} |-> None]

_parse_student_info(html) ==
    LET data == ExtractData(html.profile)
        m == FirstMissing(data)
    IN  IF m # 0
        THEN [kind |-> "ParseError", reason |-> "missing",
              field |-> required_fields[m], record |-> NoRecord]
        ELSE IF StudentInfoErrors(data) # {}
             THEN \* pydantic ValidationError, wrapped by the except clause
                  [kind |-> "ParseError", reason |-> "validation",
                   field |-> "", record |-> NoRecord]
             ELSE [kind |-> "ok", reason |-> "", field |-> "",
                   record |-> StudentInfo(data)]

---------------------------------------------------------------------------
(* AuthenticationData and SessionInfo (models.py) *)

\* (mutant) the login checked without trimming
validate_login_notrim(v) == Truthy(v)

\* validate_login: not v or not v.strip()
validate_login(v) == Truthy(v) /\ Truthy(Strip(v))

\* validate_password: not v
validate_password(v) == Truthy(v)

\* AuthenticationData(login=login, password=password): None when a validator
\* raises, else the model with the login stripped and remember_me defaulted
AuthenticationData(login, password) ==
    IF validate_login(login) /\ validate_password(password)
    THEN Some([login |-> Strip(login), password |-> password, remember_me |-> FALSE])
    ELSE None

\* (mutant) no check of the account identifier
validate_api_id_lax(v) == TRUE

\* validate_api_id, validate_csrf_token: not v or not v.strip()
validate_api_id(v) == Truthy(v) /\ Truthy(Strip(v))
validate_csrf_token(v) == Truthy(v) /\ Truthy(Strip(v))

\* SessionInfo(api_id=..., csrf_token=..., is_authenticated=True): None when a
\* validator raises, else the model with both strings stripped
SessionInfo(api_id, csrf_token, is_authenticated) ==
    IF validate_api_id(api_id) /\ validate_csrf_token(csrf_token)
    THEN Some([api_id |-> Strip(api_id), csrf_token |-> Strip(csrf_token),
               is_authenticated |-> is_authenticated])
    ELSE None

\* the is_authenticated property of the client
is_authenticated(info) == ~IsNone(info) /\ Val(info).is_authenticated

---------------------------------------------------------------------------
(* MisisClient._get_csrf_token *)

\* (mutant) an empty content attribute taken as the token
ExtractToken_lax(text) ==
    IF IsNone(text.csrf_meta) \/ IsNone(Val(text.csrf_meta))
    THEN [kind |-> "ParseError", token |-> None]
    ELSE [kind |-> "ok", token |-> Val(text.csrf_meta)]

\* the token a login page carries: the content of its csrf-token meta tag
ExtractToken(text) ==
    IF IsNone(text.csrf_meta)
    THEN [kind |-> "ParseError", token |-> None]          \* no meta tag
    ELSE LET content == Val(text.csrf_meta)
         IN  IF IsNone(content) \/ ~Truthy(Val(content))
             THEN [kind |-> "ParseError", token |-> None] \* no or empty content
             ELSE [kind |-> "ok", token |-> content]

_get_csrf_token(n, script) ==
    LET r == _make_request(n, "GET", AUTH_URL, GetKwargs, script)
    IN  CASE r.kind = "NetworkError" ->
                [kind |-> "NetworkError", events |-> r.events, token |-> None]
          [] r.kind = "OtherError" ->      \* wrapped by the except clause
                [kind |-> "ParseError", events |-> r.events, token |-> None]
          [] OTHER ->
                LET t == ExtractToken(r.response.text)
                IN  [kind |-> t.kind, events |-> r.events, token |-> t.token]

---------------------------------------------------------------------------
(* MisisClient.authenticate *)

\* the marker the Location header must contain
LocationMarker == <<"/","s">>
RuPrefix == <<"/","r","u","/">>

\* the Location header passes the two checks of lines 193-196
LocationAccepted(location) ==
    /\ ~IsNone(location)
    /\ Truthy(Val(location))
    /\ Contains(Val(location), LocationMarker)

\* (mutant) the whole Location taken when it has no "/ru/"
ExtractApiId_noerror(location) ==
    LET parts == Split(location, RuPrefix)
    IN  IF Len(parts) < 2 THEN Some(location) ELSE Some(Split(parts[2], <<"/">>)[1])

\* headers.get("Location").split("/ru/")[1].split("/")[0]: None on IndexError
ExtractApiId(location) ==
    LET parts == Split(location, RuPrefix)
    IN  IF Len(parts) < 2 THEN None ELSE Some(Split(parts[2], <<"/">>)[1])

\* (mutant) a failed authenticate drops the session
AuthResult_destroying(kind, reason, events, info, api_id, token) ==
    [kind |-> kind, reason |-> reason, events |-> events,
     _session_info |-> IF kind = "ok" THEN info ELSE None,
     api_id |-> api_id, csrf_token |-> token]

\* (mutant) the failure phrase in the body does not fail the call
AuthResult_phrase_ignored(kind, reason, events, info, api_id, token) ==
    IF reason = "failure_phrase"
    THEN [kind |-> "ok", reason |-> "", events |-> events,
          _session_info |-> Some([api_id |-> <<"s">>, csrf_token |-> Val(token),
                                  is_authenticated |-> TRUE]),
          api_id |-> Some(<<"s">>), csrf_token |-> token]
    ELSE [kind |-> kind, reason |-> reason, events |-> events,
          _session_info |-> info, api_id |-> api_id, csrf_token |-> token]

\* what an authenticate call leaves: its outcome (kind "ok" when it returns,
\* else the exception raised), the requests and sleeps it made, the client's
\* _session_info after it, and the account identifier and token it obtained
AuthResult(kind, reason, events, info, api_id, token) ==
    [kind |-> kind, reason |-> reason, events |-> events, _session_info |-> info,
     api_id |-> api_id, csrf_token |-> token]

\* authenticate on a client whose _session_info is info; get_script and
\* post_script are the server's answers to the requests of the two
\* _make_request calls
authenticate(n, info, login, password, get_script, post_script) ==
    LET auth_data == AuthenticationData(login, password)
    IN  IF IsNone(auth_data)
        THEN \* pydantic ValidationError, raised before the try block
             AuthResult("ValidationError", "credentials", <<>>, info, None, None)
        ELSE
        LET t == _get_csrf_token(n, get_script)
        IN  IF t.kind # "ok"
            THEN AuthResult(t.kind, "csrf", t.events, info, None, None)
            ELSE
            LET auth_payload == [login |-> Val(auth_data).login,
                                 password |-> Val(auth_data).password,
                                 remember_me |-> Val(auth_data).remember_me,
                                 authenticity_token |-> Val(t.token)]
                r == _make_request(n, "POST", AUTH_URL, PostKwargs(auth_payload),
                                   post_script)
                ev == t.events \o r.events
                fail(kind, reason) == AuthResult(kind, reason, ev, info, None, t.token)
            IN  CASE r.kind = "NetworkError" -> fail("NetworkError", "post")
                  [] r.kind = "OtherError" -> fail("AuthenticationError", "wrapped")
                  [] OTHER ->
                    LET location == r.response.headers.Location
                    IN  IF ~LocationAccepted(location)
                        THEN fail("AuthenticationError", "location")
                        ELSE IF r.response.status \notin {302, 200}
                        THEN fail("AuthenticationError", "status")
                        ELSE IF r.response.text.failure_phrase
                        THEN fail("AuthenticationError", "failure_phrase")
                        ELSE
                        LET api_id == ExtractApiId(Val(location))
                        IN  IF IsNone(api_id)
                            THEN fail("AuthenticationError", "wrapped") \* IndexError
                            ELSE
                            LET si == SessionInfo(Val(api_id), Val(t.token), TRUE)
                            IN  IF IsNone(si)
                                THEN \* pydantic ValidationError, wrapped
                                     AuthResult("AuthenticationError", "wrapped", ev,
                                                info, api_id, t.token)
                                ELSE AuthResult("ok", "", ev, si, api_id, t.token)

---------------------------------------------------------------------------
(* MisisClient.get_student_info *)

SIGN_IN == <<"s","i","g","n","_","i","n">>

\* (mutant) the profile URL without the "/ru/" prefix
profile_url_noprefix(api_id) ==
    BASE_URL \o <<"/">> \o api_id \o <<"/","p","r","o","f","i","l","e">>

profile_url(api_id) == BASE_URL \o RuPrefix \o api_id \o <<"/","p","r","o","f","i","l","e">>

\* (mutant) a Parse error marks the session unauthenticated
InfoResult_expiring(kind, events, info, url, parsed) ==
    [kind |-> kind, events |-> events,
     _session_info |-> IF kind = "ParseError" /\ ~IsNone(info)
                       THEN Some([Val(info) EXCEPT !.is_authenticated = FALSE])
                       ELSE info,
     url |-> url, parsed |-> parsed]

\* (mutant) a record-construction failure of the parser not wrapped
InfoResult_unwrapped(kind, events, info, url, parsed) ==
    [kind |-> IF kind = "ParseError" /\ parsed.reason = "validation"
              THEN "ValidationError" ELSE kind,
     events |-> events, _session_info |-> info, url |-> url, parsed |-> parsed]

\* what a get_student_info call leaves: its outcome, the requests and sleeps
\* it made, the client's _session_info after it, the final URL of the profile
\* fetch and the parser's result
InfoResult(kind, events, info, url, parsed) ==
    [kind |-> kind, events |-> events, _session_info |-> info, url |-> url,
     parsed |-> parsed]

NotParsed == [kind |-> "none", reason |-> "", field |-> "", record |-> NoRecord]

\* (mutant) the guard without the flag
NeedsAuthentication_noflag(info) == IsNone(info)

\* the guard of line 277: not self._session_info or not ...is_authenticated
NeedsAuthentication(info) == IsNone(info) \/ ~Val(info).is_authenticated

\* (mutant) the session left as it is
MarkExpired_noop(info) == info

\* line 286: self._session_info.is_authenticated = False
MarkExpired(info) == Some([Val(info) EXCEPT !.is_authenticated = FALSE])

\* lines 282-298 of get_student_info: the fetch of url, which line 281 built
\* before the await, and what follows it; info is self._session_info as it is
\* when _make_request has returned, script what the attempts of the fetch met
fetch_profile(n, url, info, script) ==
    LET r == _make_request(n, "GET", url, GetKwargs, script)
    IN  CASE r.kind = "NetworkError" ->
                InfoResult("NetworkError", r.events, info, None, NotParsed)
          [] r.kind = "OtherError" ->      \* wrapped by the except clause
                InfoResult("ParseError", r.events, info, None, NotParsed)
          [] OTHER ->
                IF Contains(r.response.url, SIGN_IN)
                THEN InfoResult("SessionExpiredError", r.events, MarkExpired(info),
                                Some(r.response.url), NotParsed)
                ELSE LET p == _parse_student_info(r.response.text)
                     IN  InfoResult(p.kind, r.events, info, Some(r.response.url), p)

\* line 278: the guard of line 277 raised SessionExpiredError
session_expired(info) == InfoResult("SessionExpiredError", <<>>, info, None, NotParsed)

\* get_student_info on a client whose _session_info is info and stays so
\* during the call
get_student_info(n, info, script) ==
    IF NeedsAuthentication(info)
    THEN session_expired(info)
    ELSE fetch_profile(n, profile_url(Val(info).api_id), info, script)

---------------------------------------------------------------------------
(* Profile pages *)

Text_x == <<"x">>
Text_mail == <<"a","@","b">>
Text_nomail == <<"a","b">>

\* the page with every field labelled and filled
CompletePage ==
    [f \in FieldSet |->
        PageField(TRUE, Some(IF f \in EmailSet THEN Text_mail ELSE Text_x))]

\* the ways one field of a page departs from the complete page
Defects(f) ==
    {PageField(FALSE, None), PageField(FALSE, Some(Text_x)),
     PageField(TRUE, None), PageField(TRUE, Some(<<>>)),
     PageField(TRUE, Some(<<"\r">>)), PageField(TRUE, Some(<<"\r", "x", " ">>))}
    \cup (IF f \in EmailSet THEN {PageField(TRUE, Some(Text_nomail))} ELSE {})

ProfileBody(page) == Body(None, FALSE, page)

---------------------------------------------------------------------------
(* SpecParse: _parse_student_info applied to profile pages *)

InitParse ==
    /\ max_retries = DefaultMaxRetries
    /\ _session = 0
    /\ _owned_session = TRUE
    /\ http_sessions = <<>>
    /\ _session_info = None
    /\ last_call = [op |-> "input", page |-> CompletePage, defects |-> 0]
    /\ NoCallers

\* the server's page departs from the complete page in one more field
DamagePage ==
    /\ last_call.op = "input"
    /\ last_call.defects < MaxDefects
    /\ \E f \in FieldSet : \E d \in Defects(f) :
            last_call' = [op |-> "input",
                          page |-> [last_call.page EXCEPT ![f] = d],
                          defects |-> last_call.defects + 1]
    /\ UNCHANGED <<max_retries, _session, _owned_session, http_sessions,
                   _session_info>>
    /\ UNCHANGED <<tasks, overlapped>>

ParseProfile ==
    /\ last_call.op = "input"
    /\ last_call' = [op |-> "_parse_student_info", page |-> last_call.page,
                     result |-> _parse_student_info(ProfileBody(last_call.page))]
    /\ UNCHANGED <<max_retries, _session, _owned_session, http_sessions,
                   _session_info>>
    /\ UNCHANGED <<tasks, overlapped>>

NextParse == DamagePage \/ ParseProfile

SpecParse == InitParse /\ [][NextParse]_vars

---------------------------------------------------------------------------
(* Spec: one client and the calls the tasks make on it *)

Tok1 == <<"t","o","k","1">>
Tok2 == <<"t","o","k","2">>
Tok_padded == <<"\r","t"," ">>

\* a login page by the state of its csrf-token meta tag
LoginPage(csrf_meta) == Response(200, Body(csrf_meta, FALSE, <<>>), AUTH_URL, Headers(None))

\* csrf-token meta tags: absent, without content, content "", " " and a token
CsrfMetas(tokens) ==
    {None, Some(None), Some(Some(<<>>)), Some(Some(<<" ">>))}
        \cup {Some(Some(t)) : t \in tokens}

\* Location headers of the answer to the login POST
Loc_s_12345 == <<"/","r","u","/","s","/","1","2","3","4","5">>
Loc_sign_in == <<"/","r","u","/","s","i","g","n","_","i","n">>
Loc_users_sign_in == <<"/","r","u","/","u","s","e","r","s","/","s","i","g","n","_","i","n">>
Loc_12345_profile == <<"/","r","u","/","1","2","3","4","5","/","p","r","o","f","i","l","e">>
Loc_empty_id == <<"/","r","u","/","/","s">>
Loc_blank_id == <<"/","r","u","/"," ","/","s">>
Loc_no_ru == <<"/","s","/","1">>
Loc_padded_id == <<"/","r","u","/","\f","x"," ","/","s">>

Locations ==
    {None, Some(<<>>), Some(Loc_s_12345), Some(Loc_sign_in), Some(Loc_users_sign_in),
     Some(Loc_12345_profile), Some(Loc_empty_id), Some(Loc_blank_id), Some(Loc_no_ru),
     Some(Loc_padded_id)}

PostResponse(status, location, failure_phrase) ==
    Response(status, Body(None, failure_phrase, <<>>), AUTH_URL, Headers(location))

\* failing attempts of Spec
MainFailures == {ErrorResponse(500)}

MainLogins == {<<>>, <<" ">>, <<"u">>}
MainPasswords == {<<>>, <<"p">>}

MainLoginFinals ==
    {LoginPage(m) : m \in {None, Some(Some(<<>>)), Some(Some(<<" ">>)), Some(Some(Tok1))}}
        \cup {OtherError}

MainPostFinals ==
    {PostResponse(302, l, FALSE) :
        l \in {None, Some(Loc_s_12345), Some(Loc_sign_in), Some(Loc_empty_id)}}
        \cup {PostResponse(301, Some(Loc_s_12345), FALSE),
              PostResponse(302, Some(Loc_s_12345), TRUE), OtherError}

\* profile pages of Spec: complete, without the course label, with an empty
\* study form, with a name block without heading
MainPages ==
    {CompletePage,
     [CompletePage EXCEPT !["course"] = PageField(FALSE, None)],
     [CompletePage EXCEPT !["study_form"] = PageField(TRUE, Some(<<>>))],
     [CompletePage EXCEPT !["full_name"] = PageField(TRUE, None)]}

ProfileResponse(url, page) == Response(200, ProfileBody(page), url, Headers(None))

MainProfileFinals(api_id) ==
    {ProfileResponse(u, pg) : u \in {profile_url(api_id), AUTH_URL}, pg \in MainPages}
        \cup {OtherError}

\* what last_call records of a call
Call(op, args, auth_before, r) ==
    [op |-> op, args |-> args, auth_before |-> auth_before, result |-> r]

NoResult == [kind |-> "ok", events |-> <<>>]

Init ==
    /\ max_retries \in 0..MaxRetries
    /\ _session = 0                     \* MisisClient()
    /\ _owned_session = TRUE
    /\ http_sessions = <<>>
    /\ _session_info = None
    /\ last_call = [op |-> "init"]
    /\ NoCallers

\* a _make_request call can create the aiohttp session
CanRequest == _session # 0 \/ Len(http_sessions) < MaxHttpSessions

\* the script of a _make_request call that is not reached
NotReached == {<<>>}

\* in the specifications where tasks call the client, last_call is the call
\* that ended in the step just taken; this is its value when none ended
NoCall == [op |-> "none"]

\* what last_call records of a _make_request call made by a task
TransportCall(method, script, r) ==
    [op |-> "_make_request", method |-> method, script |-> script,
     events |-> r.events, kind |-> r.kind, response |-> r.response]

\* the aiohttp session the client refers to and the sessions there are
Here == [_session |-> _session, http_sessions |-> http_sessions]

\* session.request can be called on the session s refers to
Open(s) == s.http_sessions[s._session] = "open"

\* what a step of a task's call leaves: the task, the call when the step ends
\* it (else None), and the client's _session_info and session
Ends(call, info, s) ==
    [task |-> IdleTask, call |-> Some(call), _session_info |-> info,
     _session |-> s._session, http_sessions |-> s.http_sessions]
Suspends(tk, info, s) ==
    [task |-> tk, call |-> None, _session_info |-> info,
     _session |-> s._session, http_sessions |-> s.http_sessions]

\* the call of task tk ends with the result r; last_call keeps the arguments
\* and what the attempts of the call's requests met: the login-page GET (gs)
\* and the login POST (ps) of authenticate, the profile GET of get_student_info
EndsAuth(tk, gs, ps, r, s) ==
    Ends(Call("authenticate",
              [login |-> tk.login, password |-> tk.password,
               get_script |-> gs, post_script |-> ps],
              tk.auth_before, r),
         r._session_info, s)
EndsInfo(tk, script, r, s) ==
    Ends(Call("get_student_info", [script |-> script], tk.auth_before, r),
         r._session_info, s)

\* authenticate runs on after its login-page GET, whose attempts met script,
\* or after its login POST: when the GET has found a token (found), the POST
\* begins (lines 187-191), _get_session is called again and leaves sp, and
\* the call is suspended at the first attempt unless that session is closed;
\* else the call ends
FinishAuth(n, tk, info, s, script, found, sp) ==
    IF found /\ Open(sp)
    THEN Suspends([tk EXCEPT !.pc = "request", !.phase = "POST",
                             !.session = sp._session, !.gs = script, !.script = <<>>],
                  info, sp)
    ELSE EndsAuth(tk,
                  IF tk.phase = "POST" THEN tk.gs ELSE script,
                  IF tk.phase = "POST" THEN script
                  ELSE IF found THEN <<SessionClosed>> ELSE <<>>,
                  authenticate(n, info, tk.login, tk.password,
                               IF tk.phase = "POST" THEN tk.gs ELSE script,
                               IF tk.phase = "POST" THEN script
                               ELSE IF found THEN <<SessionClosed>> ELSE <<>>),
                  IF found THEN sp ELSE s)

\* the call of task tk runs on from the end of its _make_request call, whose
\* attempts met script, or from a check that keeps it from any request, to
\* its next await or to its end; info is the client's _session_info of this
\* moment
Finish(n, tk, info, s, script) ==
    CASE tk.op = "_make_request" ->
            Ends(TransportCall(tk.method, script,
                               _make_request(n, tk.method, AUTH_URL, GetKwargs, script)),
                 info, s)
      [] tk.op = "get_student_info" ->
            EndsInfo(tk, script,
                     IF tk.url = <<>>
                     THEN session_expired(info)
                     ELSE fetch_profile(n, tk.url, info, script),
                     s)
      [] OTHER ->
            FinishAuth(n, tk, info, s, script,
                       /\ tk.phase = "GET"
                       /\ ~IsNone(AuthenticationData(tk.login, tk.password))
                       /\ _get_csrf_token(n, script).kind = "ok",
                       _get_session(s._session, s.http_sessions))

\* what the server can answer to the attempt a task has under way
TransportAnswers ==
    {ClientError, TimeoutError, ErrorResponse(500), OtherError}
        \cup {Response(st, EmptyBody, AUTH_URL, Headers(None)) : st \in {200, 399}}
LoginAnswers ==
    MainFailures
        \cup {LoginPage(m) : m \in {None, Some(Some(<<" ">>)), Some(Some(Tok1))}}
PostAnswers ==
    MainFailures
        \cup {PostResponse(302, Some(l), FALSE) :
                l \in {Loc_s_12345, Loc_empty_id}}
ProfileAnswers(url) ==
    MainFailures
        \cup {ProfileResponse(url, CompletePage), ProfileResponse(AUTH_URL, CompletePage),
              ProfileResponse(url, [CompletePage EXCEPT !["course"] = PageField(FALSE, None)])}
Answers(tk) ==
    CASE tk.op = "_make_request" -> TransportAnswers
      [] tk.op = "get_student_info" -> ProfileAnswers(tk.url)
      [] tk.op = "authenticate" /\ tk.phase = "POST" -> PostAnswers
      [] OTHER -> LoginAnswers

\* the step of task t leaves out
Applies(t, out) ==
    /\ Len(out.http_sessions) <= MaxHttpSessions
    /\ tasks' = [tasks EXCEPT ![t] = out.task]
    /\ last_call' = IF IsNone(out.call) THEN NoCall ELSE Val(out.call)
    /\ _session_info' = out._session_info
    /\ _session' = out._session
    /\ http_sessions' = out.http_sessions
    /\ UNCHANGED <<max_retries, _owned_session>>

\* a step of task t: it is suspended as `waiting` when go holds, else its call
\* runs on as Finish tells
Proceeds(t, go, waiting, tk, s, script) ==
    Applies(t, IF go
               THEN Suspends(waiting, _session_info, s)
               ELSE Finish(max_retries, tk, _session_info, s, script))

\* lines 96-100 of _make_request, when the call reaches it (reached): the
\* session is taken from _get_session and kept in a local variable, and the
\* first attempt is made on it, which raises at once on a closed session; with
\* max_retries <= 0 there is no attempt
Begins(t, tk, reached, s) ==
    Proceeds(t, reached /\ max_retries > 0 /\ Open(s),
             [tk EXCEPT !.pc = "request", !.session = s._session], tk, s,
             IF reached /\ max_retries > 0 THEN <<SessionClosed>> ELSE <<>>)

\* task t, which is in no call, makes one
Calls(t) ==
    /\ tasks[t].pc = "idle"
    /\ overlapped' = (overlapped \/ \E u \in Tasks \ {t} : tasks[u].pc # "idle")

\* task t is resumed at the await it is suspended at
Resumes(t, pc) ==
    /\ tasks[t].pc = pc
    /\ UNCHANGED overlapped

\* authenticate(login, password), up to its first await or its end: credentials
\* that fail validation end it before _make_request is reached
Authenticates(t, login, password) ==
    Begins(t,
           [IdleTask EXCEPT !.op = "authenticate", !.phase = "GET",
                            !.login = login, !.password = password,
                            !.auth_before = is_authenticated(_session_info),
                            !.url = AUTH_URL],
           ~IsNone(AuthenticationData(login, password)),
           IF IsNone(AuthenticationData(login, password))
           THEN Here ELSE _get_session(_session, http_sessions))

Authenticate(t) ==
    /\ Calls(t)
    /\ \E login \in {<<" ">>, <<"u">>}, password \in {<<"p">>} :
        Authenticates(t, login, password)

\* get_student_info(), up to its await or its end: the guard of line 277 ends
\* it before _make_request is reached
GetStudentInfo(t) ==
    /\ Calls(t)
    /\ Begins(t,
              [IdleTask EXCEPT !.op = "get_student_info",
                               !.auth_before = is_authenticated(_session_info),
                               !.url = IF NeedsAuthentication(_session_info)
                                       THEN <<>>
                                       ELSE profile_url(Val(_session_info).api_id)],
              ~NeedsAuthentication(_session_info),
              IF NeedsAuthentication(_session_info)
              THEN Here ELSE _get_session(_session, http_sessions))

\* _make_request(method, AUTH_URL), up to its first await or its end
TransportRequest(t) ==
    /\ Calls(t)
    /\ \E method \in {"GET", "POST"} :
        Begins(t,
               [IdleTask EXCEPT !.op = "_make_request", !.method = method,
                                !.url = AUTH_URL],
               TRUE, _get_session(_session, http_sessions))

\* async with: __aenter__, which awaits nothing that suspends it
AEnter(t) ==
    /\ Calls(t)
    /\ CanRequest
    /\ LET s == _get_session(_session, http_sessions)
       IN  /\ _session' = s._session
           /\ http_sessions' = s.http_sessions
    /\ last_call' = Call("__aenter__", <<>>, is_authenticated(_session_info), NoResult)
    /\ UNCHANGED <<max_retries, _owned_session, _session_info, tasks>>

\* close(), also what __aexit__ does.  A call that has nothing to close ends
\* at once.  Else the session is closed, and `await self._session.close()`
\* (line 67) either returns without yielding to the event loop, so that line
\* 68 runs in the same step, or yields: the call is suspended and the client
\* refers to the closed session until it resumes.  Which of the two happens is
\* decided inside aiohttp (the connector's close may wait for its transports).
Close(t) ==
    /\ Calls(t)
    /\ LET c == close(_session, _owned_session, http_sessions)
       IN  IF c._session = _session /\ c.http_sessions = http_sessions
           THEN /\ last_call' = Call("close", <<>>, is_authenticated(_session_info),
                                     NoResult)
                /\ UNCHANGED <<tasks, http_sessions, _session>>
           ELSE /\ http_sessions' = c.http_sessions
                /\ \/ /\ _session' = c._session
                      /\ last_call' = Call("close", <<>>,
                                           is_authenticated(_session_info), NoResult)
                      /\ UNCHANGED tasks
                   \/ /\ tasks' = [tasks EXCEPT ![t] =
                                [IdleTask EXCEPT !.pc = "close", !.op = "close",
                                    !.auth_before = is_authenticated(_session_info),
                                    !.session = c._session]]
                      /\ last_call' = NoCall
                      /\ UNCHANGED _session
    /\ UNCHANGED <<max_retries, _owned_session, _session_info>>

\* lines 101-120: the attempt task t has under way is answered, by one of
\* answers; a failure that is not the last attempt's is slept on
AnsweredWith(t, answers) ==
    /\ Resumes(t, "request")
    /\ \E o \in answers :
        Proceeds(t, Retryable(o) /\ Len(tasks[t].script) + 1 < max_retries,
                 [tasks[t] EXCEPT !.pc = "sleep", !.script = Append(@, o)],
                 tasks[t], Here, Append(tasks[t].script, o))

Answered(t) == AnsweredWith(t, Answers(tasks[t]))

\* the sleep of task t is over: the next attempt is made on the session the
\* call holds, and raises at once when that is closed
Woken(t) ==
    /\ Resumes(t, "sleep")
    /\ Proceeds(t, http_sessions[tasks[t].session] = "open",
                [tasks[t] EXCEPT !.pc = "request"],
                tasks[t], Here, Append(tasks[t].script, SessionClosed))

\* session.close() had yielded and has returned to task t: line 68
Closed(t) ==
    /\ Resumes(t, "close")
    /\ _session' = tasks[t].session
    /\ tasks' = [tasks EXCEPT ![t] = IdleTask]
    /\ last_call' = Call("close", <<>>, tasks[t].auth_before, NoResult)
    /\ UNCHANGED <<max_retries, _owned_session, _session_info, http_sessions>>

Next ==
    \E t \in Tasks :
        \/ Authenticate(t)
        \/ GetStudentInfo(t)
        \/ AEnter(t)
        \/ Close(t)
        \/ Answered(t)
        \/ Woken(t)
        \/ Closed(t)

Spec == Init /\ [][Next]_vars

---------------------------------------------------------------------------
(* SpecTransport *)

\* task "A" makes _make_request calls while task "B" makes close() calls
NextTransport ==
    \/ TransportRequest("A")
    \/ Answered("A")
    \/ Woken("A")
    \/ Close("B")
    \/ Closed("B")

SpecTransport == InitTransport /\ [][NextTransport]_vars

---------------------------------------------------------------------------
(* SpecScope: one scope of a client: an optional __aenter__, authenticate   *)
(* and get_student_info calls of both tasks, overlapping or not, and, when  *)
(* they have all ended, the exit of the scope (__aexit__, or close())       *)

\* a call of task t inside the scope: __aenter__ as the first call, or
\* authenticate or get_student_info as long as the scope has not been left
Scoped(t) ==
    /\ last_call.op # "close"
    /\ \A u \in Tasks : tasks[u].pc # "close"
    /\ \/ (last_call.op = "init" /\ AEnter(t))
       \/ Authenticate(t)
       \/ GetStudentInfo(t)

\* the scope is left once, when the calls made inside it have ended
ScopeExit(t) ==
    /\ last_call.op # "close"
    /\ \A u \in Tasks : tasks[u].pc = "idle"
    /\ Close(t)

NextScope ==
    \E t \in Tasks :
        \/ Scoped(t)
        \/ Answered(t)
        \/ Woken(t)
        \/ ScopeExit(t)
        \/ Closed(t)

SpecScope == Init /\ [][NextScope]_vars

---------------------------------------------------------------------------
(* SpecAuth: task A makes one authenticate call, the first call on a client *)
(* in any session state; while it is under way task B makes one call        *)

\* logins and passwords: empty, blank, padded and plain
AuthCredentials ==
    {<<login, <<"p">>>> : login \in {<<>>, <<" ">>, <<"u">>, <<"\r","u"," ">>}}
        \cup {<<<<"u">>, password>> : password \in {<<>>, <<"\r">>}}

AuthFailures == {ClientError, ErrorResponse(500)}

\* what the server can answer to an attempt of the login-page GET
AuthLoginAnswers ==
    AuthFailures
        \cup {LoginPage(m) : m \in CsrfMetas({Tok1, Tok_padded})} \cup {OtherError}

\* what the server can answer to an attempt of the login POST: every Location
\* on a 302, every status with and without the failure phrase on an accepted
\* Location, and a status that is none of 200 and 302 without a Location
AuthPostAnswers ==
    AuthFailures
        \cup {PostResponse(302, l, FALSE) : l \in Locations}
        \cup {PostResponse(st, Some(Loc_s_12345), ph) :
                st \in {200, 301, 302}, ph \in BOOLEAN}
        \cup {PostResponse(301, None, FALSE), OtherError}

\* the sessions a client can hold before the call: none, one from an earlier
\* successful authenticate, and that one after session-expired detection
EarlierSession(auth) ==
    Some([api_id |-> <<"o","l","d">>, csrf_token |-> Tok2, is_authenticated |-> auth])

InitAuth ==
    /\ max_retries \in 1..MaxAuthRetries
    /\ _session = 0
    /\ _owned_session = TRUE
    /\ http_sessions = <<>>
    /\ _session_info \in {None, EarlierSession(TRUE), EarlierSession(FALSE)}
    /\ last_call = [op |-> "init"]
    /\ NoCallers

\* task t makes a call while the call of task u is under way, the only call
\* of the behaviour that is made during another
Overlapping(t, u) ==
    /\ tasks[u].pc # "idle"
    /\ ~overlapped
    /\ tasks[t].pc = "idle"

\* authenticate(login, password), the first call on the client, up to its
\* first await or its end
AuthenticateOnce ==
    /\ last_call.op = "init"
    /\ Calls("A")
    /\ \E c \in AuthCredentials : Authenticates("A", c[1], c[2])

\* get_student_info() and close() of task B during the authenticate call
FetchDuring == Overlapping("B", "A") /\ GetStudentInfo("B")
CloseDuring == Overlapping("B", "A") /\ Close("B")

NextAuth ==
    \/ AuthenticateOnce
    \/ AnsweredWith("A", IF tasks["A"].phase = "POST"
                         THEN AuthPostAnswers ELSE AuthLoginAnswers)
    \/ Woken("A")
    \/ FetchDuring
    \/ CloseDuring
    \/ Answered("B")
    \/ Woken("B")
    \/ Closed("B")

SpecAuth == InitAuth /\ [][NextAuth]_vars

---------------------------------------------------------------------------
(* SpecSession: task A makes one authenticate call and, as it has ended, one *)
(* get_student_info call; task B makes one call during either               *)

\* what the server can answer to the attempts of task A: the login page with a
\* token, a 302 with any Location, the profile page at its URL or at the login
\* page's, or a status 500
SessionAnswers(tk) ==
    MainFailures \cup
    CASE tk.op = "get_student_info" ->
            {ProfileResponse(u, CompletePage) : u \in {tk.url, AUTH_URL}}
      [] tk.phase = "POST" -> {PostResponse(302, l, FALSE) : l \in Locations}
      [] OTHER -> {LoginPage(Some(Some(Tok1)))}

\* get_student_info called as the authenticate call has ended, however it ended
FetchProfileOnce ==
    /\ last_call.op = "authenticate"
    /\ GetStudentInfo("A")

NextSession ==
    \/ AuthenticateOnce
    \/ FetchProfileOnce
    \/ AnsweredWith("A", SessionAnswers(tasks["A"]))
    \/ Woken("A")
    \/ FetchDuring
    \/ CloseDuring
    \/ Answered("B")
    \/ Woken("B")
    \/ Closed("B")

SpecSession == InitAuth /\ [][NextSession]_vars

---------------------------------------------------------------------------
(* SpecCli: one run of the command-line interface (cli.get_student_info) *)

\* (mutant) exit code 0 whatever happened
ExitCode_zero(raised) == 0

\* sys.exit(1) in both except clauses, a normal return otherwise
ExitCode(raised) == IF raised THEN 1 ELSE 0

\* where the run is, the calls it has made on the client, whether an
\* exception has left the async with block, the result of the last call,
\* whether the record has been printed and the exit code once it has exited
CliRun(pc, authenticate_calls, get_student_info_calls, raised, result, printed, exit_code) ==
    [op |-> "cli", pc |-> pc, authenticate_calls |-> authenticate_calls,
     get_student_info_calls |-> get_student_info_calls, raised |-> raised,
     result |-> result, printed |-> printed, exit_code |-> exit_code]

InitCli ==
    /\ max_retries = DefaultMaxRetries  \* MisisClient()
    /\ _session = 0
    /\ _owned_session = TRUE
    /\ http_sessions = <<>>
    /\ _session_info = None
    /\ last_call = CliRun("start", 0, 0, FALSE, NoResult, FALSE, None)
    /\ NoCallers

\* async with MisisClient() as client: __aenter__
CliEnter ==
    /\ last_call.pc = "start"
    /\ LET s == _get_session(_session, http_sessions)
       IN  /\ _session' = s._session
           /\ http_sessions' = s.http_sessions
    /\ last_call' = [last_call EXCEPT !.pc = "entered"]
    /\ UNCHANGED <<max_retries, _owned_session, _session_info>>
    /\ UNCHANGED <<tasks, overlapped>>

\* await client.authenticate(login, password)
CliAuthenticate ==
    /\ last_call.pc = "entered"
    /\ \E login \in MainLogins, password \in MainPasswords :
       \E gs \in IF IsNone(AuthenticationData(login, password))
                 THEN NotReached
                 ELSE Scripts(max_retries, MainFailures, MainLoginFinals) :
       \E ps \in IF IsNone(AuthenticationData(login, password))
                        \/ _get_csrf_token(max_retries, gs).kind # "ok"
                 THEN NotReached
                 ELSE Scripts(max_retries, MainFailures, MainPostFinals) :
          LET r == authenticate(max_retries, _session_info, login, password, gs, ps)
              s == IF IsNone(AuthenticationData(login, password))
                   THEN [_session |-> _session, http_sessions |-> http_sessions]
                   ELSE _get_session(_session, http_sessions)
          IN  /\ _session_info' = r._session_info
              /\ _session' = s._session
              /\ http_sessions' = s.http_sessions
              /\ last_call' = CliRun(IF r.kind = "ok" THEN "authenticated" ELSE "raised",
                                     last_call.authenticate_calls + 1,
                                     last_call.get_student_info_calls,
                                     r.kind # "ok", r, FALSE, None)
    /\ UNCHANGED <<max_retries, _owned_session>>
    /\ UNCHANGED <<tasks, overlapped>>

\* student_info = await client.get_student_info() (line 50), then the
\* printing of the record (lines 52-55), which is inside the try block too: an
\* exception of print or of json.dumps (an encoding the output stream does not
\* have, a closed stream) leaves the block like one of the calls
CliGetStudentInfo ==
    /\ last_call.pc = "authenticated"
    /\ \E script \in IF ~NeedsAuthentication(_session_info)
                     THEN Scripts(max_retries, MainFailures,
                                  MainProfileFinals(Val(_session_info).api_id))
                     ELSE NotReached :
          LET r == get_student_info(max_retries, _session_info, script)
              s == IF ~NeedsAuthentication(_session_info)
                   THEN _get_session(_session, http_sessions)
                   ELSE [_session |-> _session, http_sessions |-> http_sessions]
          IN  /\ _session_info' = r._session_info
              /\ _session' = s._session
              /\ http_sessions' = s.http_sessions
              /\ \E printed \in IF r.kind = "ok" THEN BOOLEAN ELSE {FALSE} :
                    last_call' = CliRun(IF printed THEN "printed" ELSE "raised",
                                        last_call.authenticate_calls,
                                        last_call.get_student_info_calls + 1,
                                        ~printed, r, printed, None)
    /\ UNCHANGED <<max_retries, _owned_session>>
    /\ UNCHANGED <<tasks, overlapped>>

\* leaving the async with block, by return or by exception: __aexit__, then
\* the except clauses
CliExit ==
    /\ last_call.pc \in {"raised", "printed"}
    /\ LET s == close(_session, _owned_session, http_sessions)
       IN  /\ _session' = s._session
           /\ http_sessions' = s.http_sessions
    /\ last_call' = [last_call EXCEPT !.pc = "exited",
                                      !.exit_code = Some(ExitCode(last_call.raised))]
    /\ UNCHANGED <<max_retries, _owned_session, _session_info>>
    /\ UNCHANGED <<tasks, overlapped>>

NextCli == CliEnter \/ CliAuthenticate \/ CliGetStudentInfo \/ CliExit

SpecCli == InitCli /\ [][NextCli]_vars

---------------------------------------------------------------------------
(* SpecFetch: task A makes one get_student_info call, the first call on a *)
(* client in any session state; while it is under way task B makes one call *)

\* profile pages of SpecFetch: those of Spec, and pages with an e-mail without
\* "@", with a blank record book number, and without an optional field
FetchPages ==
    MainPages \cup
    {[CompletePage EXCEPT !["personal_email"] = PageField(TRUE, Some(Text_nomail))],
     [CompletePage EXCEPT !["corporate_email"] = PageField(TRUE, Some(Text_nomail))],
     [CompletePage EXCEPT !["record_book_number"] = PageField(TRUE, Some(<<" ">>))],
     [CompletePage EXCEPT !["specialization"] = PageField(FALSE, None)]}

\* what the server can answer to an attempt of the profile GET for url: a
\* failure, or a page at the final URL url, the login page's or the site's root
FetchAnswers(url) ==
    Failures
        \cup {ProfileResponse(u, pg) : u \in {url, AUTH_URL, BASE_URL}, pg \in FetchPages}
        \cup {OtherError}

\* get_student_info(), the first call on the client
FetchOnce ==
    /\ last_call.op = "init"
    /\ GetStudentInfo("A")

\* authenticate(login, password) of task B during the call of task A
AuthenticateDuring == Overlapping("B", "A") /\ Authenticate("B")

NextFetch ==
    \/ FetchOnce
    \/ AnsweredWith("A", FetchAnswers(tasks["A"].url))
    \/ Woken("A")
    \/ AuthenticateDuring
    \/ FetchDuring
    \/ CloseDuring
    \/ Answered("B")
    \/ Woken("B")
    \/ Closed("B")

SpecFetch == InitAuth /\ [][NextFetch]_vars

---------------------------------------------------------------------------
(* SpecInjected: the calls of Spec on a client built around a caller's session *)

\* MisisClient(session=session) with an open aiohttp session
InitInjected ==
    /\ max_retries \in 0..MaxRetries
    /\ _session = 1
    /\ _owned_session = FALSE
    /\ http_sessions = <<"open">>
    /\ _session_info = None
    /\ last_call = [op |-> "init"]
    /\ NoCallers

\* close() finds nothing of the client's own to close and never awaits
NextInjected ==
    \E t \in Tasks :
        \/ Authenticate(t)
        \/ GetStudentInfo(t)
        \/ AEnter(t)
        \/ Close(t)
        \/ Answered(t)
        \/ Woken(t)

SpecInjected == InitInjected /\ [][NextInjected]_vars

---------------------------------------------------------------------------
(* SpecRetries: clients built with any max_retries, negative and zero too *)

InitRetries ==
    /\ max_retries \in (-1)..MaxRetries
    /\ _session = 0
    /\ _owned_session = TRUE
    /\ http_sessions = <<>>
    /\ _session_info = None
    /\ last_call = [op |-> "init"]
    /\ NoCallers

\* task "A" makes _make_request and authenticate calls, and task "B" calls
\* close() during one of them
NextRetries ==
    \/ TransportRequest("A")
    \/ Authenticate("A")
    \/ Answered("A")
    \/ Woken("A")
    \/ CloseDuring
    \/ Closed("B")

SpecRetries == InitRetries /\ [][NextRetries]_vars

---------------------------------------------------------------------------
(* Claims *)

\* the client is authenticated: _session_info is set and its flag is true
Authenticated == ~IsNone(_session_info) /\ Val(_session_info).is_authenticated

IsCall(op) == last_call.op = op

\* a string is empty after trimming
Blank(v) == ~Truthy(Strip(v))

\* a step makes the client authenticated only by an authenticate call that
\* returns
BecomesAuthenticatedOnlyByAuthenticate ==
    (~Authenticated /\ Authenticated') =>
        (last_call'.op = "authenticate" /\ last_call'.result.kind = "ok")

\* a profile fetch that ended on a URL containing "sign_in" raised
\* SessionExpired and left the flag false
ExpiryDetected ==
    (IsCall("get_student_info") /\ ~IsNone(last_call.result.url)
        /\ Contains(Val(last_call.result.url), SIGN_IN)) =>
            (last_call.result.kind = "SessionExpiredError" /\ ~Authenticated)

\* get_student_info on an unauthenticated client raised SessionExpired without
\* any request
UnauthenticatedCallFails ==
    (IsCall("get_student_info") /\ ~last_call.auth_before) =>
        /\ last_call.result.kind = "SessionExpiredError"
        /\ last_call.result.events = <<>>
        /\ ~Authenticated

\* C1: a get_student_info call whose profile fetch ends on a URL containing
\* "sign_in" fails with SessionExpired and leaves the flag false; while the
\* client is unauthenticated only a successful authenticate makes it
\* authenticated again, and a get_student_info call on an unauthenticated
\* client fails with SessionExpired having issued no request at all.
C1_SessionExpiredSticks ==
    /\ [](ExpiryDetected /\ UnauthenticatedCallFails)
    /\ [][BecomesAuthenticatedOnlyByAuthenticate]_vars

\* C1 witness: a get_student_info call on a client whose session has expired
\* has failed with SessionExpired
C1_Witness ==
    /\ IsCall("get_student_info")
    /\ ~last_call.auth_before
    /\ ~IsNone(_session_info)
    /\ last_call.result.kind = "SessionExpiredError"
    /\ last_call.result.events = <<>>

\* the Location header of the answer the login POST of the last authenticate
\* call got, None when the POST got no answer below status 400
PostLocation ==
    LET ps == last_call.args.post_script
    IN  IF Len(ps) > 0 /\ ps[Len(ps)].t = "response" /\ ps[Len(ps)].status < 400
        THEN ps[Len(ps)].headers.Location
        ELSE None

\* C2: an authenticate call whose login POST is answered with the login path
\* as Location ("/ru/sign_in", "/ru/users/sign_in") fails with Authentication
\* error, which leaves no session authenticated by it.
C2_LoginPathRejected ==
    (IsCall("authenticate")
        /\ PostLocation \in {Some(Loc_sign_in), Some(Loc_users_sign_in)}) =>
            last_call.result.kind = "AuthenticationError"

\* the account identifier or the token an authenticate call obtained is empty
\* after trimming
ObtainedBlank(r) ==
    \/ (~IsNone(r.api_id) /\ Blank(Val(r.api_id)))
    \/ (~IsNone(r.csrf_token) /\ Blank(Val(r.csrf_token)))

\* an authenticated session carries a non-blank account identifier and token
SessionWellFormed ==
    Authenticated =>
        (~Blank(Val(_session_info).api_id) /\ ~Blank(Val(_session_info).csrf_token))

\* C3 as stated: an authenticated session carries a non-blank account
\* identifier and token, and after an authenticate call that obtained a blank
\* identifier or token the client is not authenticated.
C3_Original ==
    /\ SessionWellFormed
    /\ (IsCall("authenticate") /\ ObtainedBlank(last_call.result)) => ~Authenticated

\* C3 amended: an authenticated session carries a non-blank account identifier
\* and token, and an authenticate call that obtained a blank identifier or
\* token fails and leaves _session_info as it was.
C3_BlankNeverStored ==
    /\ []SessionWellFormed
    /\ [][(last_call'.op = "authenticate" /\ ObtainedBlank(last_call'.result)) =>
            (last_call'.result.kind # "ok" /\ _session_info' = _session_info)]_vars

\* C3 witness: an authenticate call got an empty account identifier out of the
\* redirect and failed, on a client that holds an earlier session
C3_Witness ==
    /\ IsCall("authenticate")
    /\ last_call.result.api_id = Some(<<>>)
    /\ last_call.result.kind = "AuthenticationError"
    /\ Authenticated

\* get_student_info on a client without any session failed with SessionExpired
\* without a request
NoSessionNoRequest ==
    (IsCall("get_student_info") /\ IsNone(_session_info)) =>
        (last_call.result.kind = "SessionExpiredError"
            /\ last_call.result.events = <<>>)

\* C4 as stated: get_student_info returns a record only on a client
\* authenticated when the call starts and when it returns; on a client without
\* any session it fails with SessionExpired without a request.
C4_Original ==
    /\ (IsCall("get_student_info") /\ last_call.result.kind = "ok") =>
            (last_call.auth_before /\ Authenticated)
    /\ NoSessionNoRequest

\* C4 amended: get_student_info returns a record only on a client
\* authenticated when the call starts, and the client is authenticated still
\* when the call returns provided no call on the client was started while
\* another was under way; on a client without any session it fails with
\* SessionExpired without a request.
C4_RecordOnlyWhileAuthenticated ==
    /\ (IsCall("get_student_info") /\ last_call.result.kind = "ok") =>
            (last_call.auth_before /\ (~overlapped => Authenticated))
    /\ NoSessionNoRequest

\* C4 witness: a get_student_info call has returned a record on a client whose
\* calls never overlapped
C4_Witness ==
    /\ IsCall("get_student_info")
    /\ last_call.result.kind = "ok"
    /\ last_call.result.parsed.record["full_name"] = Some(Text_x)
    /\ ~overlapped
    /\ Authenticated

\* the attempt failed: the endpoint answered with a status >= 400, or the
\* request met a network failure, a connection error or a timeout
AttemptFails(o) ==
    \/ (o.t = "response" /\ o.status >= 400)
    \/ o.t \in {"ClientError", "TimeoutError"}

\* the endpoint failed on every attempt of the script
AllAttemptsFail(script) == \A i \in 1..Len(script) : AttemptFails(script[i])

\* the retries ran out: every attempt of the script met a failure that
\* _make_request retries
RetriesRanOut(script) == \A i \in 1..Len(script) : Retryable(script[i])

\* the sleep events among the events of a call
Sleeps(events) == SelectSeq(events, LAMBDA ev : ev.e = "sleep")

NonDecreasing(delays) ==
    \A i \in 1..(Len(delays) - 1) : delays[i].delay <= delays[i + 1].delay

\* the last _make_request call issued exactly max_retries requests and raised
\* NetworkError, having slept 2^k after attempt k for every attempt but the
\* last
Exhausted ==
    LET ev == last_call.events
        n == max_retries
    IN  /\ last_call.kind = "NetworkError"
        /\ Len(Requests(ev)) = n
        /\ Len(ev) = 2 * n - 1
        /\ \A k \in 0..(n - 1) :
                ev[2 * k + 1].e = "request" /\ ev[2 * k + 1].attempt = k
        /\ \A k \in 0..(n - 2) : ev[2 * k + 2] = SleepEvent(2 ^ k)
        /\ NonDecreasing(Sleeps(ev))
        /\ (n = 3 => Sleeps(ev) = <<SleepEvent(1), SleepEvent(2)>>)

\* C5: a _make_request call with max_retries = n >= 1 against an endpoint
\* that fails on every attempt (status >= 400 or network failure) issues
\* exactly n requests and raises NetworkError; it sleeps 2^k after attempt k
\* for every attempt but the last, so the delays never decrease; with n = 3
\* the delays are 1 then 2.
C5_RetryExhaustion ==
    (IsCall("_make_request") /\ max_retries >= 1
        /\ AllAttemptsFail(last_call.script)) => Exhausted

\* the step in which the call ended sent no request and left the aiohttp
\* sessions and _session_info as they were
NothingDone ==
    /\ last_call'.result.events = <<>>
    /\ UNCHANGED <<_session, http_sessions, _session_info>>

\* the last call is an authenticate call with a login or a password that is
\* empty after trimming
BlankCredentials ==
    /\ IsCall("authenticate")
    /\ (Blank(last_call.args.login) \/ Blank(last_call.args.password))

\* the last call is an authenticate call with a login that is empty after
\* trimming or with the empty password
EmptyCredentials ==
    /\ IsCall("authenticate")
    /\ (Blank(last_call.args.login) \/ last_call.args.password = <<>>)

\* C6 as stated: an authenticate call whose login or password is empty after
\* trimming fails with a Validation or Authentication error before any request
\* and leaves the session as it was.
C6_Original ==
    [][BlankCredentials' =>
            /\ last_call'.result.kind \in {"ValidationError", "AuthenticationError"}
            /\ NothingDone]_vars

\* C6 amended: an authenticate call whose login is empty after trimming or
\* whose password is the empty string fails with a Validation error before
\* any request and leaves the session as it was.
C6_EmptyCredentialsRejected ==
    [][EmptyCredentials' =>
            /\ last_call'.result.kind = "ValidationError"
            /\ NothingDone]_vars

\* C6 witness: a whitespace-only login was rejected on a client that holds an
\* authenticated session
C6_Witness ==
    /\ IsCall("authenticate")
    /\ last_call.args.login = <<" ">>
    /\ last_call.args.password = <<"p">>
    /\ last_call.result.kind = "ValidationError"
    /\ Authenticated

\* a step changes _session_info only as an authenticate call returns or as a
\* get_student_info call fails with SessionExpired
ChangedOnlyOnReturn ==
    _session_info' # _session_info =>
        \/ (last_call'.op = "authenticate" /\ last_call'.result.kind = "ok")
        \/ (last_call'.op = "get_student_info"
                /\ last_call'.result.kind = "SessionExpiredError")

\* C7: the flag becomes true only by an authenticate call that returns, it
\* becomes false only by a get_student_info call that found "sign_in" in the
\* final URL, and a get_student_info call that returns a record or fails with
\* Network or Parse error leaves _session_info as it was, at its return and
\* at every step before.
C7_FlagTransitions ==
    [][/\ BecomesAuthenticatedOnlyByAuthenticate
       /\ ChangedOnlyOnReturn
       /\ (Authenticated /\ ~Authenticated') =>
            /\ last_call'.op = "get_student_info"
            /\ last_call'.result.kind = "SessionExpiredError"
            /\ ~IsNone(last_call'.result.url)
            /\ Contains(Val(last_call'.result.url), SIGN_IN)
       /\ (last_call'.op = "get_student_info"
            /\ last_call'.result.kind \in {"ok", "NetworkError", "ParseError"}) =>
                _session_info' = _session_info]_vars

\* C7 witness: a get_student_info call failed with Parse error and the client
\* is authenticated still
C7_Witness ==
    /\ IsCall("get_student_info")
    /\ last_call.result.kind = "ParseError"
    /\ Authenticated

\* a call that by C8 destroys the session: close, or an authenticate that fails
Destroying(call) ==
    call.op = "close" \/ (call.op = "authenticate" /\ call.result.kind # "ok")

\* C8 as stated: after close() and after an authenticate call that fails the
\* client is not authenticated.
C8_Original == (last_call.op # "init" /\ Destroying(last_call)) => ~Authenticated

\* C8 amended: close() and an authenticate call that fails leave _session_info
\* as it was, and get_student_info on an unauthenticated client fails with
\* SessionExpired.
C8_FailureKeepsSession ==
    /\ [][(last_call'.op # "init" /\ Destroying(last_call')) =>
            _session_info' = _session_info]_vars
    /\ []((IsCall("get_student_info") /\ ~last_call.auth_before) =>
            last_call.result.kind = "SessionExpiredError")

\* C8 witness: an authenticate call failed on an authenticated client, which
\* is authenticated still
C8_Witness ==
    /\ IsCall("authenticate")
    /\ last_call.result.kind = "NetworkError"
    /\ last_call.auth_before
    /\ Authenticated

\* the parser returned a record
Parsed == IsCall("_parse_student_info") /\ last_call.result.kind = "ok"

\* the value element of field f is on the page and is empty or whitespace
EmptyValue(page, f) ==
    page[f].label /\ ~IsNone(page[f].value) /\ Blank(Val(page[f].value))

\* C9: every record the parser returns has its 11 required fields non-empty
\* after trimming, and a page with an empty or whitespace-only value element
\* of a required field yields no record.
C9_RequiredNonEmpty ==
    /\ Parsed =>
        \A f \in RequiredSet :
            /\ ~IsNone(last_call.result.record[f])
            /\ ~Blank(Val(last_call.result.record[f]))
    /\ (IsCall("_parse_student_info")
            /\ \E f \in RequiredSet : EmptyValue(last_call.page, f)) =>
                last_call.result.kind # "ok"

\* the order in which C10 names the required fields
C10_Order ==
    <<"full_name", "record_book_number", "study_form", "preparation_level",
      "specialty", "faculty", "course", "group", "financing_form", "dormitory",
      "end_date">>

\* the page lacks field f: the name block for full_name, else the label or the
\* value element after it
Lacks(page, f) ==
    IF f = "full_name" THEN ~page[f].label
    ELSE ~page[f].label \/ IsNone(page[f].value)

LacksSome(page) == \E i \in 1..Len(C10_Order) : Lacks(page, C10_Order[i])

FirstLacking(page) ==
    C10_Order[CHOOSE i \in 1..Len(C10_Order) :
                /\ Lacks(page, C10_Order[i])
                /\ \A k \in 1..(i - 1) : ~Lacks(page, C10_Order[k])]

MissingFieldError(r) == r.kind = "ParseError" /\ r.reason = "missing"

\* C10: a page that lacks a required field fails with the Parse error that
\* names the first lacking field in the fixed order and yields no record; a
\* page lacking only the course label names course; a page that lacks no
\* required field never fails with that error, whatever optional fields it
\* lacks.
C10_MissingFieldNamed ==
    IsCall("_parse_student_info") =>
        LET page == last_call.page
            r == last_call.result
        IN  /\ LacksSome(page) =>
                /\ MissingFieldError(r)
                /\ r.field = FirstLacking(page)
                /\ r.record = NoRecord
            /\ (\A f \in FieldSet : Lacks(page, f) <=> f = "course") =>
                (MissingFieldError(r) /\ r.field = "course")
            /\ ~LacksSome(page) => ~MissingFieldError(r)

\* C10 witness: a page without the course label and without the value element
\* of the group, parsed: the error names course
C10_Witness ==
    /\ IsCall("_parse_student_info")
    /\ ~last_call.page["course"].label
    /\ last_call.page["group"] = PageField(TRUE, None)
    /\ MissingFieldError(last_call.result)
    /\ last_call.result.field = "course"

\* every required field of the page has its label and a value that is not
\* empty after trimming
RequiredFilled(page) ==
    \A f \in RequiredSet :
        page[f].label /\ ~IsNone(page[f].value) /\ ~Blank(Val(page[f].value))

\* email field f is on the page with a non-empty value
EmailPresent(page, f) ==
    page[f].label /\ ~IsNone(page[f].value) /\ ~Blank(Val(page[f].value))

\* C11: on a page with all 11 required fields present, parsing returns a
\* record when every present email field contains "@", and fails with a
\* Validation error, not a Parse error, when a present non-empty email field
\* contains no "@".
C11_EmailValidationError ==
    (IsCall("_parse_student_info") /\ RequiredFilled(last_call.page)) =>
        LET page == last_call.page
            bad == {f \in EmailSet :
                        EmailPresent(page, f) /\ ~Contains(Val(page[f].value), <<"@">>)}
        IN  /\ bad = {} => last_call.result.kind = "ok"
            /\ bad # {} => last_call.result.kind = "ValidationError"

\* the last authenticate call was made with credentials AuthenticationData
\* accepts
ValidCredentials ==
    IsCall("authenticate")
        /\ ~Blank(last_call.args.login) /\ last_call.args.password # <<>>

\* the last answer of a script
LastOf(script) == script[Len(script)]

\* the login POST of the last authenticate call was sent and the server's last
\* answer to it is a response with a status below 400
PostAnswered ==
    /\ ValidCredentials
    /\ Len(last_call.args.post_script) > 0
    /\ LastOf(last_call.args.post_script).t = "response"
    /\ LastOf(last_call.args.post_script).status < 400

\* the page has no csrf-token meta tag, or the tag has no content attribute or
\* an empty one
NoTokenValue(text) ==
    \/ IsNone(text.csrf_meta)
    \/ IsNone(Val(text.csrf_meta))
    \/ Val(Val(text.csrf_meta)) = <<>>

\* C12: an authenticate call with valid credentials ends in a session or in
\* an Authentication, Network or Parse error.  Retries running out on the GET
\* or on the POST give Network error, a login page without a usable token and
\* an unexpected exception while fetching it give Parse error before any POST,
\* and an unexpected exception of the POST, a Location without "/ru/" and an
\* empty account identifier give Authentication error.
C12_FailureKinds ==
    ValidCredentials =>
        LET gs == last_call.args.get_script
            ps == last_call.args.post_script
            r == last_call.result
        IN  /\ r.kind \in {"ok", "AuthenticationError", "NetworkError", "ParseError"}
            /\ RetriesRanOut(gs) => r.kind = "NetworkError"
            /\ (Len(ps) > 0 /\ RetriesRanOut(ps)) => r.kind = "NetworkError"
            /\ (~RetriesRanOut(gs) /\ LastOf(gs).t = "response"
                    /\ NoTokenValue(LastOf(gs).text)) =>
                        (r.kind = "ParseError"
                            /\ \A i \in 1..Len(r.events) :
                                    r.events[i].e = "request" => r.events[i].method = "GET")
            /\ (~RetriesRanOut(gs) /\ LastOf(gs) = OtherError) => r.kind = "ParseError"
            /\ (Len(ps) > 0 /\ LastOf(ps) = OtherError) => r.kind = "AuthenticationError"
            /\ (PostAnswered /\ LastOf(ps).headers.Location
                    \in {Some(Loc_no_ru), Some(Loc_empty_id), Some(Loc_blank_id)}) =>
                        r.kind = "AuthenticationError"

\* C12 witness: the POST was answered 302 with Location "/s/1", which has no
\* "/ru/", and the call failed with Authentication error
C12_Witness ==
    /\ PostAnswered
    /\ LastOf(last_call.args.post_script) = PostResponse(302, Some(Loc_no_ru), FALSE)
    /\ last_call.result.kind = "AuthenticationError"
    /\ last_call.result.reason = "wrapped"

\* the answers the server gave to the login POST of the last authenticate call
\* that are responses with a status other than 200 and 302
OtherStatusAnswers ==
    {i \in 1..Len(last_call.args.post_script) :
        /\ last_call.args.post_script[i].t = "response"
        /\ last_call.args.post_script[i].status \notin {200, 302}}

\* C13: an authenticate call whose login POST got a response with a status
\* other than 200 and 302, a 3xx or a status >= 400, fails with Authentication
\* error, which creates no authenticated session.
C13_OtherStatusRejected ==
    (ValidCredentials /\ OtherStatusAnswers # {}) =>
        last_call.result.kind = "AuthenticationError"

\* an answer to the login POST that rejects it: a response that is an HTTP
\* error status or does not carry what authenticate accepts as success
Rejection(o) ==
    /\ o.t = "response"
    /\ \/ o.status >= 400
       \/ o.status \notin {200, 302}
       \/ ~LocationAccepted(o.headers.Location)
       \/ o.text.failure_phrase

\* the login POSTs the last authenticate call sent
PostsSent ==
    SelectSeq(last_call.result.events,
              LAMBDA ev : ev.e = "request" /\ ev.method = "POST")

\* C14: within one authenticate call no login POST is sent after the server
\* has answered one with a rejection: the POST that is rejected is the last
\* one of the call.
C14_NoPostAfterRejection ==
    ValidCredentials =>
        \A i \in 1..Len(PostsSent) :
            Rejection(last_call.args.post_script[i]) => Len(PostsSent) = i

\* the aiohttp sessions that are open
OpenSessions == {i \in 1..Len(http_sessions) : http_sessions[i] = "open"}

\* a close() call has closed the session and not yet dropped the reference
Closing == \E t \in Tasks : tasks[t].pc = "close"

\* at most one session is open, the one the client refers to; the client
\* refers to a closed one only while close() is under way
OneConnection ==
    /\ Cardinality(OpenSessions) <= 1
    /\ OpenSessions \subseteq {_session}
    /\ (_session # 0 /\ OpenSessions = {}) => Closing

\* a step creates a session only when the client holds none, in __aenter__ or
\* in a call that reached _make_request, and the client then refers to it
CreatedLazily ==
    Len(http_sessions') > Len(http_sessions) =>
        /\ _session = 0
        /\ Len(http_sessions') = Len(http_sessions) + 1
        /\ _session' = Len(http_sessions')
        /\ \/ last_call'.op = "__aenter__"
           \/ \E t \in Tasks :
                /\ tasks'[t].op \in {"authenticate", "get_student_info"}
                /\ tasks'[t].pc = "request"
                /\ tasks'[t].session = _session'
           \/ (last_call'.op \in {"authenticate", "get_student_info"}
                /\ max_retries <= 0
                /\ last_call'.result.kind = "NetworkError")

\* a closed session stays closed
ClosedForGood ==
    \A i \in 1..Len(http_sessions) :
        http_sessions[i] = "closed" => http_sessions'[i] = "closed"

\* C15: a client that creates its own aiohttp session has at most one open at
\* any time, the one it refers to; the session is created only by __aenter__
\* or by a call that reaches _make_request, when the client holds none; after
\* the exit of the scope (__aexit__, which is close()) the session is closed
\* and the client refers to none, whatever authenticate and get_student_info
\* calls were made inside the scope and however they ended.
C15_OneOwnedConnection ==
    /\ [](_owned_session /\ OneConnection)
    /\ [](IsCall("close") => (_session = 0 /\ OpenSessions = {}))
    /\ [](IsCall("init") => http_sessions = <<>>)
    /\ [][CreatedLazily /\ ClosedForGood]_vars

\* C15 witness: the scope has been left after overlapping calls, among them an
\* authenticate call that returned and a get_student_info call that failed
\* with SessionExpired, and the one session the client created is closed
C15_Witness ==
    /\ IsCall("close")
    /\ overlapped
    /\ ~IsNone(_session_info)
    /\ ~Authenticated
    /\ http_sessions = <<"closed">>
    /\ _session = 0

\* the login-page GET of the last authenticate call was answered with a page
GetAnswered ==
    /\ ValidCredentials
    /\ Len(last_call.args.get_script) > 0
    /\ LastOf(last_call.args.get_script).t = "response"
    /\ LastOf(last_call.args.get_script).status < 400

\* C16: when the login page has no csrf-token meta tag, or the tag has no or
\* an empty content, token extraction fails with Parse error and authenticate
\* sends no login POST; when the tag has a non-empty content the token
\* extracted is exactly that content, the same for the same page.
C16_TokenExtraction ==
    GetAnswered =>
        LET text == LastOf(last_call.args.get_script).text
            r == last_call.result
        IN  /\ NoTokenValue(text) =>
                /\ r.kind = "ParseError"
                /\ r.csrf_token = None
                /\ PostsSent = <<>>
            /\ ~NoTokenValue(text) =>
                /\ r.csrf_token = Val(text.csrf_meta)
                /\ r.kind # "ParseError"

\* C16 witness: the login page carried the tag with an empty content and the
\* call failed with Parse error after one GET
C16_Witness ==
    /\ GetAnswered
    /\ LastOf(last_call.args.get_script) = LoginPage(Some(Some(<<>>)))
    /\ last_call.result.kind = "ParseError"
    /\ Len(Requests(last_call.result.events)) = 1

\* answer i of the script is the first response with a status below 400
FirstSuccess(script, i) ==
    /\ script[i].t = "response"
    /\ script[i].status < 400
    /\ \A k \in 1..(i - 1) : ~(script[k].t = "response" /\ script[k].status < 400)

\* C18: a _make_request call returns the first response with a status below
\* 400 as it is, having sent no request and slept no delay after it, and it
\* never sends more than max_retries requests, whatever mix of network
\* failures and statuses >= 400 the attempts met.
C18_NoRetryOnSuccess ==
    IsCall("_make_request") =>
        LET ev == last_call.events
            script == last_call.script
        IN  /\ Len(Requests(ev)) <= max_retries
            /\ Len(Sleeps(ev)) <= Len(Requests(ev))
            /\ \A i \in 1..Len(script) :
                FirstSuccess(script, i) =>
                    /\ last_call.kind = "ok"
                    /\ last_call.response = script[i]
                    /\ Len(Requests(ev)) = i
                    /\ Len(Sleeps(ev)) = i - 1
                    /\ ev[Len(ev)].e = "request"

\* C18 witness: max_retries = 3, a status 500, then a network failure, then a
\* status 200, which is returned after three requests
C18_Witness ==
    /\ IsCall("_make_request")
    /\ max_retries = 3
    /\ last_call.script =
        <<ErrorResponse(500), ClientError, Response(200, EmptyBody, AUTH_URL, Headers(None))>>
    /\ last_call.kind = "ok"
    /\ last_call.response.status = 200
    /\ Len(Requests(last_call.events)) = 3

\* the text between the first "/ru/" of the location and the next "/"
SegmentAfterRu(location) ==
    LET rest == SubSeq(location, Find(location, RuPrefix) + Len(RuPrefix), Len(location))
    IN  IF Contains(rest, <<"/">>) THEN SubSeq(rest, 1, Find(rest, <<"/">>) - 1) ELSE rest

ProfilePath == <<"/","p","r","o","f","i","l","e">>

\* the URL of the profile page of account id
ProfileOf(id) == BASE_URL \o RuPrefix \o id \o ProfilePath

\* every request of the events is a GET of url
Fetches(events, url) ==
    \A i \in 1..Len(events) :
        events[i].e = "request" =>
            (events[i].method = "GET" /\ events[i].url = url)

\* a profile fetch asks for the page of the account the session holds as the
\* call is made: a get_student_info call that waits for an answer waits for
\* that page's, and the requests of the call, as it ends, are GETs of it
FetchesAccountHeld ==
    /\ \A t \in Tasks :
        /\ (tasks[t].pc = "idle" /\ tasks'[t].pc # "idle"
                /\ tasks'[t].op = "get_student_info") =>
                    tasks'[t].url = ProfileOf(Val(_session_info).api_id)
        /\ (tasks[t].pc # "idle" /\ tasks'[t].pc = "idle"
                /\ tasks[t].op = "get_student_info") =>
                    /\ last_call'.op = "get_student_info"
                    /\ Fetches(last_call'.result.events, tasks[t].url)
    /\ (last_call'.op = "get_student_info"
            /\ \A t \in Tasks : tasks[t].pc = "idle" \/ tasks'[t].pc # "idle") =>
                Fetches(last_call'.result.events, ProfileOf(Val(_session_info).api_id))

\* C19 as stated: after an authenticate call that returns, the session's
\* account identifier is the segment after the first "/ru/" of the Location,
\* and a later profile fetch is a GET of <base>/ru/<that segment>/profile.
C19_Original ==
    /\ []((IsCall("authenticate") /\ last_call.result.kind = "ok") =>
            Val(_session_info).api_id = SegmentAfterRu(Val(PostLocation)))
    /\ [][FetchesAccountHeld]_vars

\* C19 amended: after an authenticate call that returns, the session's account
\* identifier is the segment after the first "/ru/" of the Location with its
\* leading and trailing whitespace removed ("s" for "/ru/s/12345"), and a
\* later profile fetch is a GET of <base>/ru/<account id>/profile with the
\* identifier of the most recent authenticate call that returned.
C19_AccountIdFromLocation ==
    /\ []((IsCall("authenticate") /\ last_call.result.kind = "ok") =>
            /\ Val(_session_info).api_id = Strip(SegmentAfterRu(Val(PostLocation)))
            /\ PostLocation = Some(Loc_s_12345) =>
                    Val(_session_info).api_id = <<"s">>)
    /\ []((IsCall("get_student_info") /\ last_call.auth_before) =>
            Len(Requests(last_call.result.events)) >= 1)
    /\ [][FetchesAccountHeld]_vars

\* C19 witness: authenticate returned on Location "/ru/ x /s" on a client that
\* held the session of account "old", and the profile of "x" was fetched
C19_Witness ==
    /\ IsCall("get_student_info")
    /\ ~overlapped
    /\ last_call.auth_before
    /\ Val(_session_info).api_id = <<"x">>
    /\ last_call.result.kind = "ok"
    /\ Len(Requests(last_call.result.events)) = 1
    /\ last_call.result.events[1].url = BASE_URL \o RuPrefix \o <<"x">> \o ProfilePath

\* the token the login page of the last authenticate call carried
PageToken == Val(Val(LastOf(last_call.args.get_script).text.csrf_meta))

\* the order of an authenticate call: it begins with a GET of the login page,
\* no GET comes after a POST, a POST is sent only after the page gave a token,
\* and every POST carries that token and does not follow redirects
GetThenPost ==
    LET reqs == Requests(last_call.result.events)
    IN  /\ Len(reqs) >= 1
        /\ reqs[1].method = "GET" /\ reqs[1].url = AUTH_URL
        /\ \A i, j \in 1..Len(reqs) :
                (reqs[i].method = "GET" /\ reqs[j].method = "POST") => i < j
        /\ PostsSent # <<>> =>
                /\ GetAnswered
                /\ ~NoTokenValue(LastOf(last_call.args.get_script).text)
        /\ \A i \in 1..Len(PostsSent) :
                /\ PostsSent[i].url = AUTH_URL
                /\ PostsSent[i].kwargs.allow_redirects = FALSE
                /\ Val(PostsSent[i].kwargs.data).authenticity_token = PageToken

\* C20 as stated: an authenticate call, on a client authenticated or not,
\* fetches the login page and extracts the token before it sends the POST,
\* the POST carries that token and does not follow redirects, and when the
\* call returns the token stored in the session is that same token.
C20_Original ==
    ValidCredentials =>
        /\ GetThenPost
        /\ last_call.result.kind = "ok" =>
                (Authenticated /\ Val(_session_info).csrf_token = PageToken)

\* C20 amended: an authenticate call with credentials that pass validation,
\* on a client authenticated or not, fetches the login page and extracts the
\* token before it sends the POST, the POST carries that token as extracted
\* and does not follow redirects, and when the call returns the token stored
\* in the session is that token with leading and trailing whitespace removed.
C20_FreshTokenPosted ==
    ValidCredentials =>
        /\ GetThenPost
        /\ last_call.result.kind = "ok" =>
                (Authenticated /\ Val(_session_info).csrf_token = Strip(PageToken))

\* C20 witness: a client holding an authenticated session with token "tok2"
\* authenticated again on a login page with token " t ": the POST carried
\* " t " and the session holds "t"
C20_Witness ==
    /\ ValidCredentials
    /\ last_call.auth_before
    /\ LastOf(last_call.args.get_script) = LoginPage(Some(Some(Tok_padded)))
    /\ last_call.result.kind = "ok"
    /\ Len(PostsSent) = 1
    /\ Val(PostsSent[1].kwargs.data).authenticity_token = Tok_padded
    /\ Val(_session_info).csrf_token = <<"t">>

\* the run has exited
Exited == IsCall("cli") /\ last_call.pc = "exited"

\* both calls of the run were made and returned
BothReturned ==
    /\ last_call.authenticate_calls = 1
    /\ last_call.get_student_info_calls = 1
    /\ last_call.result.kind = "ok"

\* the run makes each call at most once, get_student_info only after
\* authenticate has returned, and leaves at once when an exception is raised
OneCallEach ==
    /\ [](IsCall("cli") =>
            /\ last_call.authenticate_calls <= 1
            /\ last_call.get_student_info_calls <= last_call.authenticate_calls)
    /\ [][(last_call'.get_student_info_calls > last_call.get_student_info_calls) =>
            (last_call.pc = "authenticated" /\ last_call.result.kind = "ok"
                /\ last_call.authenticate_calls = 1)]_vars
    /\ [][(last_call.pc = "raised") => last_call'.pc = "exited"]_vars

\* the run has exited with code 0 or 1 and the session of the client is closed
\* and dropped
ExitedReleased ==
    /\ last_call.exit_code \in {Some(0), Some(1)}
    /\ _session = 0
    /\ http_sessions = <<"closed">>

\* C17 as stated: a run of the command-line interface calls authenticate at
\* most once and get_student_info at most once, the latter only after
\* authenticate has returned; it exits with code 1 when one of them raised and
\* with code 0 when both returned, and in both cases the client's aiohttp
\* session is closed and dropped when the run exits.
C17_Original ==
    /\ OneCallEach
    /\ [](Exited =>
            /\ last_call.result.kind # "ok" => last_call.exit_code = Some(1)
            /\ BothReturned <=> last_call.exit_code = Some(0)
            /\ ExitedReleased)

\* C17 amended: a run of the command-line interface calls authenticate at
\* most once and get_student_info at most once, the latter only after
\* authenticate has returned; it exits with code 1 when one of them raised or
\* the printing of the record raised, and with code 0 when both returned and
\* the record was printed, and in all these cases the client's aiohttp
\* session is closed and dropped when the run exits.
C17_CliRun ==
    /\ OneCallEach
    /\ [](Exited =>
            /\ (last_call.result.kind # "ok" \/ ~last_call.printed) =>
                    last_call.exit_code = Some(1)
            /\ (BothReturned /\ last_call.printed) <=> last_call.exit_code = Some(0)
            /\ last_call.printed => BothReturned
            /\ ExitedReleased)

\* C17 witness: both calls of the run returned, the printing of the record
\* raised, and the run exited with code 1, its session closed
C17_Witness ==
    /\ Exited
    /\ BothReturned
    /\ ~last_call.printed
    /\ last_call.exit_code = Some(1)
    /\ http_sessions = <<"closed">>

\* the login POST of the last authenticate call was answered with a body that
\* contains the failure phrase
PhraseAnswered ==
    PostAnswered /\ LastOf(last_call.args.post_script).text.failure_phrase

\* C21: an authenticate call whose login POST is answered with a body that
\* contains the failure phrase fails with Authentication error and leaves
\* _session_info as it was, also when the status is 200 or 302 and the
\* Location header contains the accepted marker.
C21_FailurePhraseRejected ==
    /\ [](PhraseAnswered => last_call.result.kind = "AuthenticationError")
    /\ [][PhraseAnswered' => _session_info' = _session_info]_vars

\* C21 witness: the POST was answered 302 with Location "/ru/s/12345" and the
\* failure phrase in the body, and the call failed on the phrase
C21_Witness ==
    /\ PostAnswered
    /\ LastOf(last_call.args.post_script) = PostResponse(302, Some(Loc_s_12345), TRUE)
    /\ last_call.result.kind = "AuthenticationError"
    /\ last_call.result.reason = "failure_phrase"
    /\ ~Authenticated

\* StudentInfo accepts what the page gives: no required field is lacking, the
\* name and the record book number are not blank, and an e-mail that is there
\* and not empty contains "@"
Constructible(page) ==
    /\ ~LacksSome(page)
    /\ \A f \in {"full_name", "record_book_number"} :
            ~IsNone(page[f].value) /\ ~Blank(Val(page[f].value))
    /\ \A f \in EmailSet :
            EmailPresent(page, f) => Contains(Val(page[f].value), <<"@">>)

\* C22: a get_student_info call returns a record or fails with SessionExpired,
\* Network or Parse error.  Without an authenticated session and on a final
\* URL with "sign_in" it is SessionExpired, when the attempts run out it is
\* Network error, and an unexpected exception of the request, a page lacking a
\* required field and a page whose record construction fails all give Parse
\* error; a record is returned only when none of these happened.
C22_FetchFailureKinds ==
    IsCall("get_student_info") =>
        LET sc == last_call.args.script
            r == last_call.result
            expired == ~RetriesRanOut(sc) /\ LastOf(sc).t = "response"
                            /\ Contains(LastOf(sc).url, SIGN_IN)
            page == LastOf(sc).text.profile
        IN  /\ r.kind \in {"ok", "SessionExpiredError", "NetworkError", "ParseError"}
            /\ ~last_call.auth_before => r.kind = "SessionExpiredError"
            /\ last_call.auth_before =>
                /\ RetriesRanOut(sc) => r.kind = "NetworkError"
                /\ (~RetriesRanOut(sc) /\ LastOf(sc) = OtherError) =>
                        r.kind = "ParseError"
                /\ expired => r.kind = "SessionExpiredError"
                /\ (~RetriesRanOut(sc) /\ LastOf(sc).t = "response" /\ ~expired) =>
                        /\ Constructible(page) => r.kind = "ok"
                        /\ ~Constructible(page) => r.kind = "ParseError"
            /\ r.kind = "ok" <=> r.parsed.kind = "ok"
            /\ r.kind # "ok" => r.parsed.record = NoRecord
            /\ r.kind = "ok" => r.parsed.record["full_name"] = Some(Text_x)

\* C22 witness: the profile page carried a personal e-mail without "@", the
\* record construction failed and the call failed with Parse error
C22_Witness ==
    /\ IsCall("get_student_info")
    /\ last_call.auth_before
    /\ LastOf(last_call.args.script).t = "response"
    /\ LastOf(last_call.args.script).text.profile["personal_email"]
            = PageField(TRUE, Some(Text_nomail))
    /\ ~Contains(LastOf(last_call.args.script).url, SIGN_IN)
    /\ last_call.result.kind = "ParseError"
    /\ last_call.result.parsed.reason = "validation"

\* C23: on a client built around a caller's session, whatever calls are made
\* (__aenter__, authenticate, get_student_info, close, which is also what
\* __aexit__ does), that session stays open, the client keeps referring to it
\* and creates no session of its own.
C23_InjectedSessionKept ==
    /\ ~_owned_session
    /\ _session = 1
    /\ http_sessions = <<"open">>

\* C23 witness: close() was called on such a client after it had
\* authenticated, and the caller's session is open and in use still
C23_Witness ==
    /\ IsCall("close")
    /\ ~_owned_session
    /\ Authenticated
    /\ _session = 1
    /\ http_sessions = <<"open">>

\* C24 as stated: on a client with max_retries <= 0 a _make_request call sends
\* no request, sleeps no delay and raises NetworkError, and an authenticate
\* call always fails with Network error and leaves the client unauthenticated.
C24_Original ==
    max_retries <= 0 =>
        /\ IsCall("_make_request") =>
                (last_call.events = <<>> /\ last_call.kind = "NetworkError")
        /\ IsCall("authenticate") =>
                (last_call.result.kind = "NetworkError" /\ ~Authenticated)

\* C24 amended: on a client with max_retries <= 0 a _make_request call sends
\* no request, sleeps no delay and raises NetworkError; an authenticate call
\* sends no request either and leaves the client unauthenticated, failing with
\* Network error when the credentials pass validation and with a Validation
\* error when they do not.
C24_NoAttemptsNoSession ==
    max_retries <= 0 =>
        /\ IsCall("_make_request") =>
                (last_call.events = <<>> /\ last_call.kind = "NetworkError")
        /\ IsCall("authenticate") =>
                /\ last_call.result.events = <<>>
                /\ ~Authenticated
                /\ ValidCredentials => last_call.result.kind = "NetworkError"
                /\ ~ValidCredentials => last_call.result.kind = "ValidationError"

\* C24 witness: authenticate with valid credentials on a client with
\* max_retries = -1 failed with Network error without a request
C24_Witness ==
    /\ max_retries = -1
    /\ ValidCredentials
    /\ last_call.result.kind = "NetworkError"
    /\ last_call.result.events = <<>>
    /\ ~Authenticated

====
